---- MODULE Spec2Model ----
(***************************************************************************)
(* Rule-driven trading engine (src/unnamed/part_000, lines 195-718).       *)
(*                                                                         *)
(* One rule is followed through the engine: the polling pass processFeeds, *)
(* the reconciliation manageTrade it starts, the pricing and decision      *)
(* methods updatePricesContext / buyAndSell, and the order placement       *)
(* placeOrder with its guard map orderPendingMap.  The Rule Store (Trade   *)
(* and Rule documents) and the Order Gateway are the environment.          *)
(*                                                                         *)
(* Money is in cents.  A JavaScript `undefined` number is modelled as 0:   *)
(* every use in the source is a truthiness test or a comparison with a     *)
(* positive number, where undefined and 0 behave alike.                    *)
(***************************************************************************)
EXTENDS Integers, FiniteSets, Sequences, TLC

\* ------------------------------------------------------------------ bounds
MaxTicks == 2      \* processFeeds passes whose reconciliation may overlap
MaxCalls == 3      \* placeOrder invocations that may overlap
MaxOrders == 2     \* orders the gateway holds
MaxTrades == 1     \* Trade documents ever created
MaxShares == 2     \* rule.numberOfShares

\* ------------------------------------------------------------ program data
CLOSING_WINDOW == 30
OVERRIDE_MARKET_CLOSE == FALSE
MANUALLY_SELL_ALL == FALSE

Undef == 0
NotCaptured == -1             \* sellOrderId = 'not-captured'
NewDate == 9                  \* new Date() in the rejection handler
RuleId == "r1"
Prices == {10000, 11000}      \* fill prices and the quoted order price, in cents
Quotes == {8500, 11000}       \* quote.close: below the risk floor, above the target
SecondsLeft == {25, 600}      \* marketHours.secondsLeftToMarketClosed

\* alpaca.getMarketHours(): open with time left, or closed
MarketHours ==
  [isClosedNow : {FALSE}, secondsLeftToMarketClosed : SecondsLeft]
  \cup {[isClosedNow |-> TRUE, secondsLeftToMarketClosed |-> 0]}

\* the flags of the rule followed that no run varies
HoldOvernight == FALSE
FollowPriceEnabled == TRUE

\* rule.limits of the rule followed
Limits == [riskPercentage |-> 10, profitPercentage |-> 20,
           targetPercentage |-> 5, riskPercentageAfterTargetReached |-> 5]

Errors == {"Not enough shares to sell", "Instrument cannot be traded", "other"}

VARIABLES
  orderPendingMap,  \* keys of this.orderPendingMap
  rules,            \* is the rule in this.rules[frequency]
  ruleEnabled,      \* rule.enabled of the in-memory rule document
  ruleDb,           \* rule.enabled as persisted in the Rule Store
  ruleCfg,          \* the rule's configuration flags
  marketHours,      \* this.marketHours
  orders,           \* Order Gateway: order id -> order
  store,            \* Rule Store: the Trade documents
  nextTradeId,      \* next fresh Trade _id
  ticks,            \* processFeeds passes and the manageTrade they started
  calls,            \* placeOrder invocations
  trip,             \* progress of the buy/sell round trip (observer)
  boot              \* start(): its position and detectIntervalChange's locals

vars == <<orderPendingMap, rules, ruleEnabled, ruleDb, ruleCfg, marketHours,
          orders, store, nextTradeId, ticks, calls, trip, boot>>

TickIds == 1..MaxTicks
CallIds == 1..MaxCalls
OrderIds == 1..MaxOrders

\* -------------------------------------------------------------- documents
NoTrade == [id |-> 0, buyOrderId |-> Undef, sellOrderId |-> Undef,
            buyPrice |-> Undef, buyDate |-> Undef, boughtShares |-> Undef,
            soldShares |-> Undef, riskValue |-> Undef, profitValue |-> Undef,
            targetReached |-> FALSE, sellPrice |-> Undef, sellDate |-> Undef,
            completed |-> FALSE]

NoOrder == [side |-> "none", qty |-> 0, filled |-> 0, status |-> "none",
            price |-> Undef, date |-> 0, limit |-> 0]

\* new Trade({ rule: ruleId })
NewTrade(id) == [NoTrade EXCEPT !.id = id]

\* The Order the gateway and rule.getOrderById report
isFilled(o) == o.status = "filled"
isPartiallyFilled(o) == o.status = "partially_filled"
isCancelled(o) == o.status = "canceled"
isOpen(o) == o.status \in {"new", "partially_filled"}

\* getValueFromPercentage(price, percentage, 'risk' | 'profit')
getValueFromPercentage(price, percentage, kind) ==
  IF kind = "risk" THEN price - (price * percentage) \div 100
                   ELSE price + (price * percentage) \div 100

\* Rule Store
getIncompleteTrades == {d \in store : ~d.completed}
Save(st, d) == {x \in st : x.id # d.id} \cup {d}
Remove(st, d) == {x \in st : x.id # d.id}
\* trades.find(trade => rule._id.equals(trade.rule)): the first one
FindTrade(ts) ==
  IF ts = {} THEN NoTrade
  ELSE CHOOSE d \in ts : \A e \in ts : d.id <= e.id

\* (Number(price) * 1.0001).toFixed(2) / (Number(price) * 0.9999).toFixed(2)
finalPrice(side, price) ==
  IF side = "buy" THEN (price * 10001 + 5000) \div 10000
                  ELSE (price * 9999 + 5000) \div 10000

\* ------------------------------------------------------------- tick state
IdleTick == [pc |-> "idle", trade |-> NoTrade, loaded |-> NoTrade,
             lastOrderId |-> Undef, lastOrder |-> NoOrder,
             lastOrderIsBuy |-> FALSE, lastOrderIsSell |-> FALSE,
             quote |-> Undef, secondsToMarketClosed |-> 0,
             branch |-> "none", cancel |-> "none", returned |-> FALSE,
             ioFail |-> FALSE]

TickOver(t) == ticks[t].pc \in {"idle", "done", "rejected", "logged"}

IdleCall == [pc |-> "idle", side |-> "none", trade |-> NoTrade,
             numberOfShares |-> 0, price |-> Undef,
             ruleSave |-> FALSE, tradeSave |-> FALSE]

\* a call whose promise rejected: the catch handler itself threw
ThrewCall == [IdleCall EXCEPT !.pc = "threw"]

CallOver(c) == calls[c].pc \in {"idle", "threw"}

\* -------------------------------------------------------------- round trip
\* Observer of one buy/sell round trip of the rule.  0: no trade, nothing
\* placed yet; 1: the buy is being placed; 2: the buy is placed; 3: the buy,
\* fully filled, is reconciled; 4: the sell is being placed; 5: the sell is
\* placed; 6: the sell, fully filled, is reconciled; -1: anything else.
Reconciled(t, branch) ==
  /\ ticks[t].pc # "done" /\ ticks'[t].pc = "done"
  /\ ticks'[t].branch = branch
  /\ ticks'[t].lastOrder.filled = ticks'[t].lastOrder.qty

Observed ==
  LET started == {c \in CallIds : calls[c].pc = "idle" /\ calls'[c].pc = "submitted"}
      saved == \E c \in CallIds :
                 calls[c].pc = "saveTrade" /\ calls'[c].pc = "idle" /\ store' # store
      ended == \E c \in CallIds : calls[c].pc # "idle" /\ calls'[c].pc \in {"idle", "handling"}
  IN IF trip = -1 THEN -1
     ELSE IF started # {} THEN
       IF trip = 0 /\ store = {}
          /\ \A c \in started : calls'[c].side = "buy" /\ calls'[c].trade.id = 0
         THEN 1
       ELSE IF trip = 3
          /\ \A c \in started : calls'[c].side = "sell" /\ calls'[c].trade.id # 0
         THEN 4
       ELSE -1
     ELSE IF trip \in {1, 4} THEN
       IF saved THEN trip + 1 ELSE IF ended THEN -1 ELSE trip
     ELSE IF trip = 2 /\ \E t \in TickIds : Reconciled(t, "buyFilled") THEN 3
     ELSE IF trip = 5 /\ \E t \in TickIds : Reconciled(t, "sellFilled") THEN 6
     ELSE trip

\* ------------------------------------------------------------ manageTrade
\* get(trade, 'sellOrderId') || get(trade, 'buyOrderId')
LastOrderIdOf(d) == IF d.sellOrderId # Undef THEN d.sellOrderId ELSE d.buyOrderId

\* rule.getOrderById(id): the gateway's order, NoOrder when there is none
getOrderById(id) == IF id \in OrderIds THEN orders[id] ELSE NoOrder

\* lastOrderIsBuy && !trade.buyPrice
RecordBuyGuardAlways(d, isBuy) == isBuy
ShouldRecordBuy(d, isBuy) == isBuy /\ d.buyPrice = Undef

\* trade.buyPrice = price ... trade.boughtShares = lastOrder.boughtShares
RecordBuy(d, o) ==
  [d EXCEPT !.buyPrice = o.price,
            !.buyDate = o.date,
            !.riskValue = getValueFromPercentage(o.price, Limits.riskPercentage, "risk"),
            !.profitValue = getValueFromPercentage(o.price, Limits.profitPercentage, "profit"),
            !.boughtShares = o.filled]

\* trade.soldShares = lastOrder.boughtShares
RecordSold(d, o) == [d EXCEPT !.soldShares = o.filled]

\* trade.sellPrice = price; trade.sellDate = date; trade.completed = true
CloseTradeNoFlag(d, o) == [d EXCEPT !.sellPrice = o.price, !.sellDate = o.date]
CloseTrade(d, o) ==
  [d EXCEPT !.sellPrice = o.price, !.sellDate = o.date, !.completed = TRUE]

\* trade.sellPrice = trade.sellDate = trade.sellOrderId = undefined; completed = false
RollbackSell(d) ==
  [d EXCEPT !.sellPrice = Undef, !.sellDate = Undef, !.sellOrderId = Undef,
            !.completed = FALSE]

\* rule.disableAfterSold || !rule.strategy.in
DisableOnlyOneShot(cfg) == cfg.disableAfterSold
DisableAfterSold(cfg) == cfg.disableAfterSold \/ ~cfg.strategyIn

\* cancelLastOrder(lastOrder): resolved true, resolved false, or a cancel request
cancelLastOrder(o) ==
  IF isCancelled(o) THEN "true"
  ELSE IF ~isFilled(o) THEN "request"
  ELSE "false"

\* lines 536-538: the context takes the reconciled values
Finish(k, d, isBuy, isSell) ==
  [k EXCEPT !.pc = "done", !.trade = d, !.lastOrderIsBuy = isBuy,
            !.lastOrderIsSell = isSell]

\* a failed assert or a rejected await: manageTrade's promise rejects
ProceedUnchecked(k, why) ==
  [k EXCEPT !.pc = "done", !.branch = why]
Reject(k, why) == [k EXCEPT !.pc = "rejected", !.branch = why]

\* lines 522-524: trade = null, lastOrderIsBuy = false, lastOrderIsSell = true
KeepsTrade(k) == Finish(k, k.trade, FALSE, TRUE)
LookingToBuy(k) == Finish(k, NoTrade, FALSE, TRUE)

\* what follows the successful cancel of a pending (non-filled) order
AfterPendingCancel(k) ==
  IF k.lastOrderIsBuy
    THEN [k EXCEPT !.pc = "remove"]
    ELSE IF k.lastOrderIsSell
      THEN Finish(k, RollbackSell(k.trade), TRUE, FALSE)
      ELSE Finish(k, k.trade, k.lastOrderIsBuy, k.lastOrderIsSell)

\* cancel of a partially filled order's remainder, and the assert on it
CancelRemainder(k, o, kind) ==
  IF cancelLastOrder(o) = "request"
    THEN [k EXCEPT !.pc = "cancel", !.cancel = kind]
    ELSE IF cancelLastOrder(o) = "true"
      THEN Finish(k, k.trade, k.lastOrderIsBuy, k.lastOrderIsSell)
      ELSE [k EXCEPT !.pc = "rejected"]

\* manageTrade from the resolution of getOrderById to its next await
Reconcile(k, o) ==
  LET d == k.trade
      isSell == k.lastOrderId = d.sellOrderId
      isBuy == k.lastOrderId = d.buyOrderId
      k0 == [k EXCEPT !.lastOrder = o, !.lastOrderIsBuy = isBuy,
                      !.lastOrderIsSell = isSell]
  IN
  IF o.status = "none" THEN Reject(k0, "orderNotFound")
  ELSE IF isFilled(o) \/ isPartiallyFilled(o) THEN
    IF ShouldRecordBuy(d, isBuy) THEN
      LET d1 == RecordBuy(d, o)
          k1 == [k0 EXCEPT !.trade = d1,
                   !.branch = IF isFilled(o) THEN "buyFilled" ELSE "buyPartial"]
      IN IF d1.boughtShares < MaxShares
           THEN CancelRemainder(k1, o, "partialBuy")
           ELSE Finish(k1, d1, isBuy, isSell)
    ELSE IF isSell THEN
      LET d1 == RecordSold(d, o)
          k1 == [k0 EXCEPT !.trade = d1,
                   !.branch = IF isFilled(o) THEN "sellFilled" ELSE "sellPartial"]
      IN IF d1.soldShares < d1.boughtShares
           THEN CancelRemainder(k1, o, "partialSell")
           ELSE [k1 EXCEPT !.pc = "saveTrade", !.trade = CloseTrade(d1, o)]
    ELSE Finish([k0 EXCEPT !.branch = "held"], d, isBuy, isSell)
  ELSE
    LET k1 == [k0 EXCEPT !.branch = IF isBuy THEN "pendingBuy" ELSE "pendingSell"]
    IN IF cancelLastOrder(o) = "request"
         THEN [k1 EXCEPT !.pc = "cancel", !.cancel = "pending"]
         ELSE IF cancelLastOrder(o) = "true"
           THEN AfterPendingCancel(k1)
           ELSE [k1 EXCEPT !.pc = "rejected"]

\* manageTrade from its call to its first await (lines 455-462)
StartManageTrade(k) ==
  IF k.trade.id = 0
    THEN Finish([k EXCEPT !.branch = "flat"], k.trade, k.lastOrderIsBuy,
                k.lastOrderIsSell)
    ELSE IF LastOrderIdOf(k.trade) = Undef
      THEN Reject(k, "noOrderId")
      ELSE [k EXCEPT !.pc = "getOrder", !.lastOrderId = LastOrderIdOf(k.trade)]

\* ------------------------------------------------------------ processFeeds
\* line 294: r.enabled && !this.orderPendingMap.has(r._id.toString())
FilterEnabledOnly == rules /\ ruleEnabled
Filter == rules /\ ruleEnabled /\ RuleId \notin orderPendingMap

\* The pass up to its await of the quotes and the incomplete trades
ProcessFeeds(t) ==
  /\ TickOver(t)
  /\ \A u \in TickIds : u < t => ~TickOver(u)
  /\ LET kept == Filter
         stop == (~OVERRIDE_MARKET_CLOSE /\ marketHours.isClosedNow) \/ ~kept
     IN /\ rules' = kept
        /\ ticks' = [ticks EXCEPT ![t] =
             IF stop THEN IdleTick
             ELSE [IdleTick EXCEPT !.pc = "fetch",
                     !.secondsToMarketClosed = marketHours.secondsLeftToMarketClosed]]
  /\ UNCHANGED <<orderPendingMap, ruleEnabled, ruleDb, ruleCfg, marketHours,
                 orders, store, nextTradeId, calls>>
  /\ UNCHANGED <<trip, boot>>

\* Quotes and trades arrive; the rule's callback runs up to the return that
\* follows its call of manageTrade (line 319: the promise is always truthy)
RunRule(t, q) ==
  /\ ticks[t].pc = "fetch"
  /\ LET d == FindTrade(getIncompleteTrades)
         k == [ticks[t] EXCEPT !.quote = q, !.trade = d, !.loaded = d,
                               !.lastOrderIsSell = (d.id = 0),
                               !.lastOrderIsBuy = FALSE]
     IN ticks' = [ticks EXCEPT ![t] =
          IF q = Undef THEN [k EXCEPT !.pc = "logged", !.trade = NoTrade,
                                      !.loaded = NoTrade]
          ELSE StartManageTrade(k)]
  /\ UNCHANGED <<orderPendingMap, rules, ruleEnabled, ruleDb, ruleCfg,
                 marketHours, orders, store, nextTradeId, calls>>
  /\ UNCHANGED <<trip, boot>>

\* rule.getOrderById resolves and manageTrade runs on to its next await
GetOrder(t) ==
  /\ ticks[t].pc = "getOrder"
  /\ ticks' = [ticks EXCEPT ![t] = Reconcile(ticks[t], getOrderById(ticks[t].lastOrderId))]
  /\ UNCHANGED <<orderPendingMap, rules, ruleEnabled, ruleDb, ruleCfg,
                 marketHours, orders, store, nextTradeId, calls>>
  /\ trip' = Observed
  /\ UNCHANGED boot

\* alpaca.cancelOrder answers: the order is cancelled, or the request fails
CancelDone(t, ok) ==
  /\ ticks[t].pc = "cancel"
  /\ LET k == ticks[t]
         id == k.lastOrderId
     IN IF ok
        THEN /\ isOpen(orders[id])
             /\ orders' = [orders EXCEPT ![id].status = "canceled",
                                         ![id].date = @ + 1]
             /\ ticks' = [ticks EXCEPT ![t] =
                  IF k.cancel = "pending" THEN AfterPendingCancel(k)
                  ELSE Finish(k, k.trade, k.lastOrderIsBuy, k.lastOrderIsSell)]
        ELSE /\ orders' = orders
             /\ ticks' = [ticks EXCEPT ![t] =
                  [k EXCEPT !.pc = "rejected", !.ioFail = isOpen(orders[id])]]
  /\ UNCHANGED <<orderPendingMap, rules, ruleEnabled, ruleDb, ruleCfg,
                 marketHours, store, nextTradeId, calls>>
  /\ UNCHANGED <<trip, boot>>

\* trade.remove() resolves (line 520)
RemoveDone(t) ==
  /\ ticks[t].pc = "remove"
  /\ store' = Remove(store, ticks[t].trade)
  /\ ticks' = [ticks EXCEPT ![t] = LookingToBuy(ticks[t])]
  /\ UNCHANGED <<orderPendingMap, rules, ruleEnabled, ruleDb, ruleCfg,
                 marketHours, orders, nextTradeId, calls>>
  /\ UNCHANGED <<trip, boot>>

\* trade.save() of the closed trade resolves (lines 498-509)
SaveTradeDone(t) ==
  /\ ticks[t].pc = "saveTrade"
  /\ store' = Save(store, ticks[t].trade)
  /\ IF DisableAfterSold(ruleCfg)
       THEN /\ ruleEnabled' = FALSE
            /\ ticks' = [ticks EXCEPT ![t].pc = "saveRule"]
       ELSE /\ ruleEnabled' = ruleEnabled
            /\ ticks' = [ticks EXCEPT ![t] =
                 Finish(ticks[t], NoTrade, ticks[t].lastOrderIsBuy,
                        ticks[t].lastOrderIsSell)]
  /\ UNCHANGED <<orderPendingMap, rules, ruleDb, ruleCfg, marketHours, orders,
                 nextTradeId, calls>>
  /\ trip' = Observed
  /\ UNCHANGED boot

\* rule.save() resolves and manageTrade returns true (lines 507-508), before
\* the context takes the cleared trade
SaveRuleDone(t) ==
  /\ ticks[t].pc = "saveRule"
  /\ ruleDb' = FALSE
  /\ ticks' = [ticks EXCEPT ![t].pc = "done", ![t].returned = TRUE]
  /\ UNCHANGED <<orderPendingMap, rules, ruleEnabled, ruleCfg, marketHours,
                 orders, store, nextTradeId, calls>>
  /\ trip' = Observed
  /\ UNCHANGED boot

\* An awaited store or gateway call of the pass rejects
AwaitFails(t) ==
  /\ ticks[t].pc \in {"fetch", "getOrder", "remove", "saveTrade", "saveRule"}
  /\ ticks' = [ticks EXCEPT ![t].pc = IF ticks[t].pc = "fetch" THEN "logged"
                                      ELSE "rejected",
                            ![t].ioFail = TRUE]
  /\ UNCHANGED <<orderPendingMap, rules, ruleEnabled, ruleDb, ruleCfg,
                 marketHours, orders, store, nextTradeId, calls>>
  /\ UNCHANGED <<trip, boot>>

\* ------------------------------------------------------------ environment
\* The gateway fills more of an open order
FillOrder(id, n, p) ==
  /\ isOpen(orders[id])
  /\ n > orders[id].filled /\ n <= orders[id].qty
  /\ p = IF orders[id].filled = 0 THEN p ELSE orders[id].price
  /\ orders' = [orders EXCEPT ![id].filled = n, ![id].price = p,
                  ![id].date = @ + 1,
                  ![id].status = IF n = orders[id].qty THEN "filled"
                                 ELSE "partially_filled"]
  /\ UNCHANGED <<orderPendingMap, rules, ruleEnabled, ruleDb, ruleCfg,
                 marketHours, store, nextTradeId, ticks, calls>>
  /\ UNCHANGED <<trip, boot>>

\* loadRulesAndAccounts(frequency): fresh rule documents from the store
LoadRules ==
  /\ ~(~OVERRIDE_MARKET_CLOSE /\ marketHours.isClosedNow)
  /\ rules' = ruleDb
  /\ ruleEnabled' = ruleDb
  /\ UNCHANGED <<orderPendingMap, ruleDb, ruleCfg, marketHours, orders, store,
                 nextTradeId, ticks, calls>>
  /\ UNCHANGED <<trip, boot>>

\* populateMarketHours()
PopulateMarketHours ==
  /\ marketHours' \in MarketHours
  /\ UNCHANGED <<orderPendingMap, rules, ruleEnabled, ruleDb, ruleCfg, orders,
                 store, nextTradeId, ticks, calls>>
  /\ UNCHANGED <<trip, boot>>

\* ------------------------------------------------- start, detectIntervalChange
\* quotes.map(quote => quote.close): a new array at every call; ref stands
\* for the array's identity, close for its content
NoArray == [ref |-> 0, close |-> Undef]
NewArray(ref, close) == [ref |-> ref, close |-> close]

\* start() about to await detectIntervalChange (line 237): prices = null,
\* changeDetected = false
Polling == [pc |-> "polling", prices |-> NoArray, currentPrices |-> NoArray]
\* the timers of lines 239-243 are set; the locals are gone
Started == [pc |-> "started", prices |-> NoArray, currentPrices |-> NoArray]
\* start()'s catch (lines 247-249): nothing is scheduled
Failed == [pc |-> "failed", prices |-> NoArray, currentPrices |-> NoArray]

\* currentPrices !== prices (line 690): arrays compare by identity
changeDetected(currentPrices, prices) == currentPrices.ref # prices.ref

\* one turn of the loop (lines 681-690): the quotes arrive with close q
DetectTurn(q) ==
  /\ boot.pc = "polling"
  /\ LET currentPrices == NewArray(boot.currentPrices.ref + 1, q)
         prices == IF boot.prices = NoArray THEN currentPrices ELSE boot.prices
     IN boot' = [pc |-> IF changeDetected(currentPrices, prices)
                         THEN "returned" ELSE "polling",
                 prices |-> prices, currentPrices |-> currentPrices]
  /\ UNCHANGED <<orderPendingMap, rules, ruleEnabled, ruleDb, ruleCfg,
                 marketHours, orders, store, nextTradeId, ticks, calls, trip>>

\* tv.getQuotes rejects: detectIntervalChange rejects into start()'s catch
DetectFails ==
  /\ boot.pc = "polling"
  /\ boot' = Failed
  /\ UNCHANGED <<orderPendingMap, rules, ruleEnabled, ruleDb, ruleCfg,
                 marketHours, orders, store, nextTradeId, ticks, calls, trip>>

\* detectIntervalChange has returned: start() sets its timers (lines 239-243)
SetTimers ==
  /\ boot.pc = "returned"
  /\ boot' = Started
  /\ UNCHANGED <<orderPendingMap, rules, ruleEnabled, ruleDb, ruleCfg,
                 marketHours, orders, store, nextTradeId, ticks, calls, trip>>

\* ---------------------------------------------------------- initial state
MkOrder(side, qty, filled, status, price, date) ==
  [side |-> side, qty |-> qty, filled |-> filled, status |-> status,
   price |-> price, date |-> date, limit |-> finalPrice(side, 10000)]

HeldTrade(b, raised, armed) ==
  [NewTrade(1) EXCEPT !.buyOrderId = 1, !.buyPrice = 10000, !.buyDate = 2,
     !.boughtShares = b,
     !.riskValue = getValueFromPercentage(10000, Limits.riskPercentage, "risk")
                   + (IF raised THEN 500 ELSE 0),
     !.profitValue = getValueFromPercentage(10000, Limits.profitPercentage, "profit"),
     !.targetReached = armed]

BoughtOrder(b) ==
  MkOrder("buy", MaxShares, b, IF b = MaxShares THEN "filled" ELSE "canceled", 10000, 2)

NoOrders == [i \in OrderIds |-> NoOrder]

\* The Trade documents and orders an earlier run may have left behind
InitStores ==
  {<<{}, NoOrders>>}
  \cup {<<{[NewTrade(1) EXCEPT !.buyOrderId = 1]},
          [NoOrders EXCEPT ![1] = MkOrder("buy", MaxShares, 0, "new", Undef, 1)]>>}
  \cup {<<{[NewTrade(1) EXCEPT !.buyOrderId = 1]}, NoOrders>>}
  \cup {<<{HeldTrade(b, raised, armed)}, [NoOrders EXCEPT ![1] = BoughtOrder(b)]>> :
          b \in 1..MaxShares, raised \in BOOLEAN, armed \in {FALSE}}
  \cup {<<{[HeldTrade(b, FALSE, FALSE) EXCEPT !.sellOrderId = 2, !.soldShares = s]},
          [NoOrders EXCEPT ![1] = BoughtOrder(b),
                           ![2] = MkOrder("sell", b - s, 0, "new", Undef, 1)]>> :
          b \in 1..MaxShares, s \in 0..(MaxShares - 1)}

InitEngine ==
  /\ orderPendingMap = {}
  /\ rules = TRUE
  /\ ruleEnabled = TRUE
  /\ ruleDb = TRUE
  /\ ruleCfg \in [disableAfterSold : BOOLEAN, strategyIn : BOOLEAN]
  /\ marketHours \in {m \in MarketHours : ~m.isClosedNow}
  /\ \E s \in InitStores :
       /\ store = s[1]
       /\ orders = s[2]
       /\ \A d \in s[1] : d.soldShares < d.boughtShares \/ d.boughtShares = Undef
  /\ nextTradeId = IF store = {} THEN 1 ELSE 2
  /\ ticks = [t \in TickIds |-> IdleTick]
  /\ calls = [c \in CallIds |-> IdleCall]
  /\ trip = 0

\* the engine with its timers set
Init == InitEngine /\ boot = Started

TickNext ==
  \/ \E t \in TickIds : ProcessFeeds(t)
  \/ \E t \in TickIds, q \in Quotes \cup {Undef} : RunRule(t, q)
  \/ \E t \in TickIds : GetOrder(t)
  \/ \E t \in TickIds, ok \in BOOLEAN : CancelDone(t, ok)
  \/ \E t \in TickIds : RemoveDone(t)
  \/ \E t \in TickIds : SaveTradeDone(t)
  \/ \E t \in TickIds : SaveRuleDone(t)
  \/ \E t \in TickIds : AwaitFails(t)
  \/ \E id \in OrderIds, n \in 1..MaxShares, p \in Prices : FillOrder(id, n, p)
  \/ LoadRules
  \/ PopulateMarketHours

\* The engine as it runs: the polling passes and their environment
Next == TickNext

Spec == Init /\ [][Next]_vars

\* The engine from start(): the wait for a price change, then the timers
InitStart == InitEngine /\ boot = Polling

NextStart ==
  \/ \E q \in Quotes : DetectTurn(q)
  \/ DetectFails
  \/ SetTimers
  \/ boot.pc = "started" /\ TickNext

SpecStart == InitStart /\ [][NextStart]_vars

\* ------------------------------------------------------ updatePricesContext
\* the rule's strategy queries, as tests of the quote (mingo Query.test)
EntryTest(close) == close <= 10000
ExitTest(close) == close >= 12000

\* lines 544-555: the number of shares the next order is for
numberOfShares(d) ==
  IF d.soldShares # Undef /\ d.soldShares < d.boughtShares
    THEN d.boughtShares - d.soldShares
    ELSE IF d.boughtShares # Undef THEN d.boughtShares ELSE MaxShares

\* The context as buyAndSell destructures it.  updatePricesContext stores
\* lastOrderIsBuy, commonOptions, holdOvernight, riskPriceReached and
\* profitPriceReached (lines 570-574); buyQuery, sellQuery, metadata, price
\* and riskValue are never stored, so buyAndSell reads them as undefined.
updatePricesContext(k) ==
  LET d == k.trade
      partialSell == d.soldShares # Undef /\ d.soldShares < d.boughtShares
  IN [trade |-> d,
      lastOrderIsBuy |-> (partialSell \/ k.lastOrderIsBuy),
      lastOrderIsSell |-> k.lastOrderIsSell,
      secondsToMarketClosed |-> k.secondsToMarketClosed,
      holdOvernight |-> HoldOvernight,
      numberOfShares |-> numberOfShares(d),
      commonPrice |-> k.quote,
      riskPriceReached |-> d.riskValue > k.quote,
      profitPriceReached |-> (d.profitValue # Undef /\ d.profitValue < k.quote),
      price |-> Undef,
      riskValue |-> Undef,
      queriesDefined |-> FALSE]

\* --------------------------------------------------------------- buyAndSell
\* lines 645-670 on the trade, with the price and riskValue the context gives
FollowPrice(c) ==
  LET d == c.trade
      gainTimesBuy == (c.price - d.buyPrice) * 100   \* realizedGainPerc * buyPrice
      armed == d.targetReached \/ Limits.targetPercentage * d.buyPrice <= gainTimesBuy
      d1 == [d EXCEPT !.targetReached = armed]
      afterTarget == getValueFromPercentage(c.price,
                        Limits.riskPercentageAfterTargetReached, "risk")
      early == getValueFromPercentage(c.price, Limits.riskPercentage, "risk")
  IN IF armed
       THEN IF afterTarget > c.riskValue THEN [d1 EXCEPT !.riskValue = afterTarget]
                                         ELSE d1
       ELSE IF 2 * gainTimesBuy > Limits.riskPercentage * d.buyPrice
                 /\ early > c.riskValue
              THEN [d1 EXCEPT !.riskValue = early]
              ELSE d1

\* What buyAndSell leaves behind: the placeOrder calls it made, in order
\* (`orders`, with `side` and `name` of the call when there is one), the
\* trade as it leaves it, and whether it threw (a test on an undefined query)
Decision(side, name, threw, d) ==
  [side |-> side, name |-> name, threw |-> threw, trade |-> d,
   orders |-> IF side = "none" THEN << >> ELSE <<side>>]

\* lines 612-670: the buy pattern, the sell pattern, the follow-price logic
Patterns(c) ==
  IF c.lastOrderIsSell /\ ~c.queriesDefined
    THEN Decision("none", "", TRUE, c.trade)
  ELSE IF c.lastOrderIsSell /\ EntryTest(c.commonPrice)
    THEN Decision("buy", "", FALSE, c.trade)
  ELSE IF c.lastOrderIsBuy /\ (c.riskPriceReached \/ c.profitPriceReached)
    THEN Decision("sell",
           IF c.riskPriceReached THEN "(Risk reached)" ELSE "(Profit reached)",
           FALSE, c.trade)
  ELSE IF c.lastOrderIsBuy /\ ~c.queriesDefined
    THEN Decision("none", "", TRUE, c.trade)
  ELSE IF c.lastOrderIsBuy /\ ExitTest(c.commonPrice)
    THEN Decision("sell", "", FALSE, c.trade)
  ELSE IF c.lastOrderIsBuy /\ c.trade.buyPrice # Undef /\ FollowPriceEnabled
    THEN Decision("none", "", FALSE, FollowPrice(c))
  ELSE Decision("none", "", FALSE, c.trade)

\* line 609 `return`: after the liquidation branch nothing else runs
FallThroughLiquidation(first, rest) ==
  [rest EXCEPT !.orders = first.orders \o rest.orders]
ExitAfterLiquidation(first, rest) == first

\* buyAndSell(context)
\* the patterns evaluated whatever the time left
EvaluateAlways(c) == Patterns(c)

buyAndSell(c) ==
  IF MANUALLY_SELL_ALL
     \/ (~OVERRIDE_MARKET_CLOSE
         /\ c.secondsToMarketClosed < CLOSING_WINDOW /\ ~c.holdOvernight)
    THEN ExitAfterLiquidation(
           Decision(IF c.lastOrderIsBuy THEN "sell" ELSE "none",
                    "(Sell before market is closed)", FALSE, c.trade),
           Patterns(c))
    ELSE Patterns(c)

\* The context buyAndSell's destructuring expects: the locals of
\* updatePricesContext (price, riskValue, the two queries) present in it
FullContext(k) ==
  [updatePricesContext(k) EXCEPT !.queriesDefined = TRUE, !.price = k.quote,
                                 !.riskValue = k.trade.riskValue]

\* --------------------------------------------------------------- placeOrder
\* this.orderPendingMap.has(ruleId)
Guarded(id) == id \in orderPendingMap

FreeOrderIds == {i \in OrderIds : orders[i].status = "none"}
FreshOrderId == CHOOSE i \in FreeOrderIds : \A j \in FreeOrderIds : i <= j

\* lines 382-404 and 449: the guard check, the submission, the guard entry
PlaceOrderCall(c, side, d, p) ==
  /\ CallOver(c)
  /\ \A b \in CallIds : b < c => ~CallOver(b)
  /\ IF Guarded(RuleId)
       THEN UNCHANGED <<orderPendingMap, calls>>
       ELSE /\ orderPendingMap' = orderPendingMap \cup {RuleId}
            /\ calls' = [calls EXCEPT ![c] =
                 [IdleCall EXCEPT !.pc = "submitted", !.side = side, !.trade = d,
                                  !.numberOfShares = numberOfShares(d),
                                  !.price = p]]
  /\ UNCHANGED <<rules, ruleEnabled, ruleDb, ruleCfg, marketHours, orders,
                 store, nextTradeId, ticks>>
  /\ trip' = Observed
  /\ UNCHANGED boot

\* alpaca.placeOrder resolves: the then-callback (lines 406-421); a sell
\* without a trade throws there and falls to the catch handler
GatewayAccept(c) ==
  /\ calls[c].pc = "submitted"
  /\ FreeOrderIds # {}
  /\ LET k == calls[c]
         id == FreshOrderId
         fresh == k.side = "buy" /\ k.trade.id = 0
         d == IF fresh THEN NewTrade(nextTradeId) ELSE k.trade
     IN /\ fresh => nextTradeId <= MaxTrades
        /\ orders' = [orders EXCEPT ![id] =
             [side |-> k.side, qty |-> k.numberOfShares, filled |-> 0,
              status |-> "new", price |-> Undef, date |-> 1,
              limit |-> finalPrice(k.side, k.price)]]
        /\ nextTradeId' = IF fresh THEN nextTradeId + 1 ELSE nextTradeId
        /\ orderPendingMap' = orderPendingMap \ {RuleId}
        /\ calls' = [calls EXCEPT ![c] =
             IF k.side = "sell" /\ k.trade.id = 0
               THEN IdleCall
               ELSE [k EXCEPT !.pc = "saveTrade", !.trade =
                      IF k.side = "buy" THEN [d EXCEPT !.buyOrderId = id]
                                        ELSE [d EXCEPT !.sellOrderId = id]]]
  /\ UNCHANGED <<rules, ruleEnabled, ruleDb, ruleCfg, marketHours, store, ticks>>
  /\ trip' = Observed
  /\ UNCHANGED boot

\* trade.save() of line 420 settles; its rejection runs the catch handler,
\* which deletes the rule's guard entry (line 445)
CallSaveDone(c, ok) ==
  /\ calls[c].pc = "saveTrade"
  /\ store' = IF ok THEN Save(store, calls[c].trade) ELSE store
  /\ orderPendingMap' = IF ok THEN orderPendingMap ELSE orderPendingMap \ {RuleId}
  /\ calls' = [calls EXCEPT ![c] = IdleCall]
  /\ UNCHANGED <<rules, ruleEnabled, ruleDb, ruleCfg, marketHours, orders,
                 nextTradeId, ticks>>
  /\ trip' = Observed
  /\ UNCHANGED boot

\* the trade closed as sold elsewhere (lines 431-434)
CloseLeftOpen(d, p) ==
  [d EXCEPT !.sellOrderId = NotCaptured, !.sellPrice = p, !.sellDate = NewDate]
CloseNotCaptured(d, p) ==
  [d EXCEPT !.sellOrderId = NotCaptured, !.completed = TRUE, !.sellPrice = p,
            !.sellDate = NewDate]

\* line 437: error.message includes 'Instrument cannot be traded'
ErrorNotRecognised(err) == FALSE
CannotBeTraded(err) == err = "Instrument cannot be traded"

\* alpaca.placeOrder rejects: the catch handler up to its await (lines 422-443)
GatewayReject(c, err, positionZero, saveOk) ==
  /\ calls[c].pc = "submitted"
  /\ LET k == calls[c]
         closes == err = "Not enough shares to sell" /\ positionZero
         disables == (closes /\ DisableAfterSold(ruleCfg))
                     \/ CannotBeTraded(err)
         throws == closes /\ k.trade.id = 0
         saves == disables \/ closes
     IN /\ ruleEnabled' = IF disables THEN FALSE ELSE ruleEnabled
        /\ ruleDb' = IF throws /\ disables /\ saveOk THEN FALSE ELSE ruleDb
        /\ orderPendingMap' = IF saves THEN orderPendingMap
                              ELSE orderPendingMap \ {RuleId}
        /\ calls' = [calls EXCEPT ![c] =
             IF throws THEN ThrewCall
             ELSE IF saves
               THEN [k EXCEPT !.pc = "handling", !.ruleSave = disables,
                      !.tradeSave = closes,
                      !.trade = IF closes THEN CloseNotCaptured(k.trade, k.price)
                                ELSE k.trade]
               ELSE IdleCall]
  /\ UNCHANGED <<rules, ruleCfg, marketHours, orders, store, nextTradeId, ticks>>
  /\ trip' = Observed
  /\ UNCHANGED boot

\* await Promise.all(promises) settles, then the guard entry is deleted
\* (lines 441-446); a rejected save throws out of the handler before that
HandlerDone(c, ruleOk, tradeOk) ==
  /\ calls[c].pc = "handling"
  /\ LET k == calls[c]
         allOk == (k.ruleSave => ruleOk) /\ (k.tradeSave => tradeOk)
     IN /\ ruleDb' = IF k.ruleSave /\ ruleOk THEN FALSE ELSE ruleDb
        /\ store' = IF k.tradeSave /\ tradeOk THEN Save(store, k.trade) ELSE store
        /\ orderPendingMap' = IF allOk THEN orderPendingMap \ {RuleId}
                              ELSE orderPendingMap
        /\ calls' = [calls EXCEPT ![c] = IF allOk THEN IdleCall ELSE ThrewCall]
  /\ UNCHANGED <<rules, ruleEnabled, ruleCfg, marketHours, orders, nextTradeId,
                 ticks>>
  /\ trip' = Observed
  /\ UNCHANGED boot

\* commonOptions.price of the calls: the quote's close
QuotedPrice == CHOOSE q \in Prices : \A r \in Prices : q <= r

\* the trade documents a caller of placeOrder can hold
CallerTrades ==
  {NoTrade} \cup getIncompleteTrades
  \cup {ticks[t].trade : t \in {u \in TickIds : ticks[u].pc = "done"}}

CallNext ==
  \/ \E c \in CallIds, side \in {"buy", "sell"}, d \in CallerTrades :
       PlaceOrderCall(c, side, d, QuotedPrice)
  \/ \E c \in CallIds : GatewayAccept(c)
  \/ \E c \in CallIds, ok \in BOOLEAN : CallSaveDone(c, ok)
  \/ \E c \in CallIds, err \in Errors, z \in BOOLEAN, ok \in BOOLEAN :
       GatewayReject(c, err, z, ok)
  \/ \E c \in CallIds, ruleOk \in BOOLEAN, tradeOk \in BOOLEAN :
       HandlerDone(c, ruleOk, tradeOk)

\* placeOrder under callers that overlap freely
InitPlace ==
  /\ Init
  /\ \A d \in store : d.sellOrderId = Undef /\ d.buyPrice # Undef /\ d.boughtShares = MaxShares /\ d.riskValue = getValueFromPercentage(10000, Limits.riskPercentage, "risk")
  /\ marketHours.secondsLeftToMarketClosed = 600

NextPlace == CallNext

SpecPlace == InitPlace /\ [][NextPlace]_vars

\* One round trip within one market session and at one quoted price: a
\* client places the buy, then the sell, each accepted by the gateway and
\* saved, while the polling passes run freely and the gateway fills
InitRound == Init /\ store = {} /\ marketHours.secondsLeftToMarketClosed = 600

OnTrip == trip' # -1

NextRound ==
  \/ \E t \in TickIds : ProcessFeeds(t) /\ OnTrip
  \/ \E t \in TickIds, q \in {QuotedPrice, Undef} : RunRule(t, q) /\ OnTrip
  \/ \E t \in TickIds : GetOrder(t) /\ OnTrip
  \/ \E t \in TickIds, ok \in BOOLEAN : CancelDone(t, ok) /\ OnTrip
  \/ \E t \in TickIds : RemoveDone(t) /\ OnTrip
  \/ \E t \in TickIds : SaveTradeDone(t) /\ OnTrip
  \/ \E t \in TickIds : SaveRuleDone(t) /\ OnTrip
  \/ \E t \in TickIds : AwaitFails(t) /\ OnTrip
  \/ \E id \in OrderIds, n \in 1..MaxShares :
       FillOrder(id, n, QuotedPrice) /\ OnTrip
  \/ LoadRules /\ OnTrip
  \/ \E c \in CallIds, side \in {"buy", "sell"}, d \in CallerTrades :
       PlaceOrderCall(c, side, d, QuotedPrice) /\ OnTrip
  \/ \E c \in CallIds : GatewayAccept(c) /\ OnTrip
  \/ \E c \in CallIds : CallSaveDone(c, TRUE) /\ OnTrip

\* A rule whose instrument the gateway refuses: every submission is rejected
\* with 'Instrument cannot be traded' while the passes and the reloads of the
\* rules run freely; the rule starts flat
InitDisable == Init /\ store = {} /\ marketHours.secondsLeftToMarketClosed = 600

NextDisable ==
  \/ \E t \in TickIds : ProcessFeeds(t)
  \/ \E t \in TickIds, q \in Quotes \cup {Undef} : RunRule(t, q)
  \/ LoadRules
  \/ \E c \in CallIds, side \in {"buy", "sell"} :
       PlaceOrderCall(c, side, NoTrade, QuotedPrice)
  \/ \E c \in CallIds :
       GatewayReject(c, "Instrument cannot be traded", FALSE, TRUE)
  \/ \E c \in CallIds, ruleOk \in BOOLEAN : HandlerDone(c, ruleOk, TRUE)

SpecDisable == InitDisable /\ [][NextDisable]_vars

SpecRound == InitRound /\ [][NextRound]_vars

\* ==================================================================== claims

\* C1: while a placeOrder call for the rule is pending at the gateway, every
\* further placeOrder call for the rule returns without submitting: at most
\* one gateway submission of the rule is in flight at any time.
C1_OneSubmissionInFlight ==
  Cardinality({c \in CallIds : calls[c].pc = "submitted"}) <= 1

\* C3: once every placement attempt of the rule has concluded (none is
\* waiting for the gateway or inside the rejection handler), the guard map
\* holds no entry for the rule.
C3_GuardReleasedOnEveryPath ==
  (\A c \in CallIds : calls[c].pc \notin {"submitted", "handling"})
    => ~Guarded(RuleId)

\* C8: a buy placed for a rule without a trade, fully filled and reconciled,
\* then a sell placed, fully filled and reconciled, leaves the rule without
\* an incomplete Trade, and a one-shot (disableAfterSold) rule disabled.
C8_RoundTrip ==
  trip = 6 => /\ getIncompleteTrades = {}
              /\ (ruleCfg.disableAfterSold => ~ruleDb)

C8_Witness ==
  /\ trip = 6
  /\ ruleCfg.disableAfterSold
  /\ \E d \in store : d.completed /\ d.buyOrderId # Undef /\ d.soldShares = MaxShares

\* C4: partially filled sells are never lost.  When a pass has reconciled
\* the retry sell of a Trade (s > 0 shares sold earlier, the order for the
\* remaining boughtShares - s) as filled for those remaining shares and no
\* store or gateway call failed, the Trade is in the store completed.
C4_RetrySellFinalizes ==
  \A t \in TickIds :
    LET k == ticks[t] IN
    (/\ TickOver(t) /\ ~k.ioFail
     /\ k.branch = "sellFilled"
     /\ k.loaded.soldShares > 0
     /\ k.lastOrder.filled = k.loaded.boughtShares - k.loaded.soldShares)
    => \E d \in store : d.id = k.loaded.id /\ d.completed

\* C5: after a pass whose reconciliation found the Trade's buy order fully
\* filled and no buyPrice on the Trade, the store holds exactly one Trade,
\* with buyPrice the fill price, buyDate the order's last update, riskValue
\* and profitValue from the rule's percentages and boughtShares the filled
\* quantity.
C5_FilledBuyRecorded ==
  \A t \in TickIds :
    LET k == ticks[t] IN
    (k.pc = "done" /\ k.branch = "buyFilled" /\ isFilled(k.lastOrder))
    => /\ Cardinality(store) = 1
       /\ \A d \in store :
            /\ d.buyPrice = k.lastOrder.price
            /\ d.buyDate = k.lastOrder.date
            /\ d.riskValue = getValueFromPercentage(k.lastOrder.price,
                                 Limits.riskPercentage, "risk")
            /\ d.profitValue = getValueFromPercentage(k.lastOrder.price,
                                   Limits.profitPercentage, "profit")
            /\ d.boughtShares = k.lastOrder.filled

\* C6: after a pass whose reconciliation found the buy order partially
\* filled with k < N shares, the order is cancelled and the rule's Trade in
\* the store has boughtShares = k.
C6_PartialBuyKept ==
  \A t \in TickIds :
    LET k == ticks[t] IN
    (k.pc = "done" /\ k.branch = "buyPartial" /\ k.lastOrder.filled < MaxShares)
    => /\ isCancelled(orders[k.lastOrderId])
       /\ \E d \in store : d.id = k.loaded.id /\ d.boughtShares = k.lastOrder.filled

\* C7: after a pass whose reconciliation found the sell order filled with
\* soldShares = boughtShares, the Trade is in the store completed, the rule
\* has no incomplete Trade of that id, and when the rule is disableAfterSold
\* or has no entry strategy it is stored disabled and manageTrade returned
\* true, the pass placing nothing.
C7_SellFilledCompletes ==
  \A t \in TickIds :
    LET k == ticks[t] IN
    (/\ k.pc = "done" /\ k.branch = "sellFilled"
     /\ k.lastOrder.filled = k.loaded.boughtShares)
    => /\ \E d \in store : d.id = k.loaded.id /\ d.completed
                           /\ d.soldShares = d.boughtShares
       /\ \A d \in getIncompleteTrades : d.id # k.loaded.id
       /\ (ruleCfg.disableAfterSold \/ ~ruleCfg.strategyIn)
            => (~ruleDb /\ k.returned /\ \A c \in CallIds : CallOver(c))

C7_Witness ==
  \E t \in TickIds :
    /\ ticks[t].pc = "done" /\ ticks[t].branch = "sellFilled"
    /\ ticks[t].lastOrder.filled = ticks[t].loaded.boughtShares
    /\ ~ruleCfg.disableAfterSold /\ ~ruleCfg.strategyIn
    /\ ~ruleDb /\ ticks[t].returned
    /\ \E d \in store : d.completed /\ d.soldShares = MaxShares

\* C9: the riskValue of a held position never decreases: no step lowers the
\* riskValue of a stored Trade that has a buyPrice, and the Trade a pass
\* holds in memory, after reconciliation and after the decision step, has a
\* riskValue no lower than the one it was loaded with.
C9_RiskValueNeverDecreases ==
  [][/\ \A d \in store, e \in store' :
          (d.id = e.id /\ d.buyPrice # Undef) => e.riskValue >= d.riskValue
     /\ \A t \in TickIds :
          LET k == ticks'[t] IN
          (k.trade.id # 0 /\ k.loaded.buyPrice # Undef)
          => /\ k.trade.riskValue >= k.loaded.riskValue
             /\ buyAndSell(updatePricesContext(k)).trade.riskValue
                  >= k.loaded.riskValue]_vars

C9_Witness ==
  \E t \in TickIds :
    /\ ticks[t].pc = "done" /\ ticks[t].branch = "held"
    /\ ticks[t].quote = 11000
    /\ ticks[t].loaded.riskValue > getValueFromPercentage(ticks[t].lastOrder.price,
                                       Limits.riskPercentage, "risk")
    /\ ticks[t].trade.riskValue = ticks[t].loaded.riskValue

\* C10: after a pass over a held position in which trailing-stop tightening
\* applies (no liquidation, no risk, profit or exit signal, and the gain at
\* or above the arming target or above half the base risk percentage), the
\* stored riskValue is the larger of the riskValue stored before and the
\* candidate floor computed from the pass's price.
C10_TrailingStopRunningMax ==
  \A t \in TickIds :
    LET k == ticks[t]
        d == k.loaded
        gainTimesBuy == (k.quote - d.buyPrice) * 100
        armed == d.targetReached
                 \/ Limits.targetPercentage * d.buyPrice <= gainTimesBuy
        halfRisk == 2 * gainTimesBuy > Limits.riskPercentage * d.buyPrice
        candidate == getValueFromPercentage(k.quote,
                       IF armed THEN Limits.riskPercentageAfterTargetReached
                                ELSE Limits.riskPercentage, "risk")
        floor == IF candidate > d.riskValue THEN candidate ELSE d.riskValue
    IN (/\ k.pc = "done" /\ k.branch = "held" /\ FollowPriceEnabled
        /\ ~(k.secondsToMarketClosed < CLOSING_WINDOW /\ ~HoldOvernight)
        /\ ~(d.riskValue > k.quote) /\ ~(d.profitValue < k.quote)
        /\ ~ExitTest(k.quote)
        /\ (armed \/ halfRisk))
       => \E e \in store : e.id = d.id /\ e.riskValue = floor

\* C11: after a pass over a held position with no liquidation condition,
\* the trailing stop not armed and the quote below the Trade's riskValue, a
\* sell of the rule has been emitted: a placeOrder call for a sell is under
\* way or a sell order is at the gateway.
C11_RiskReachedSells ==
  \A t \in TickIds :
    LET k == ticks[t] IN
    (/\ k.pc = "done" /\ k.branch = "held"
     /\ ~(k.secondsToMarketClosed < CLOSING_WINDOW /\ ~HoldOvernight)
     /\ ~k.loaded.targetReached
     /\ k.loaded.riskValue > k.quote)
    => \/ \E c \in CallIds : ~CallOver(c) /\ calls[c].side = "sell"
       \/ \E id \in OrderIds : orders[id].side = "sell"

\* C12: after a pass with fewer than 30 seconds to the close, over an open
\* position of a rule that does not hold overnight, a sell of the rule has
\* been submitted to the gateway or is being submitted.
C12_LiquidationSells ==
  \A t \in TickIds :
    LET k == ticks[t] IN
    (/\ k.pc = "done" /\ k.lastOrderIsBuy /\ k.trade.boughtShares > 0
     /\ k.secondsToMarketClosed < CLOSING_WINDOW /\ ~HoldOvernight)
    => \/ \E c \in CallIds : calls[c].pc = "submitted" /\ calls[c].side = "sell"
       \/ \E id \in OrderIds : orders[id].side = "sell" /\ isOpen(orders[id])

\* C13: a failure while a rule is processed is caught and logged: no pass
\* ends with the promise of its manageTrade rejected and unhandled.
C13_NoUnhandledRejection ==
  \A t \in TickIds : ticks[t].pc # "rejected"

\* C15: for the context a completed reconciliation leaves, as
\* updatePricesContext stores it and with the locals buyAndSell expects in
\* it, buyAndSell makes at most one placeOrder call, and it changes the
\* trade (trailing-stop tightening) only when it makes none.
C15_AtMostOneOrder ==
  \A t \in TickIds :
    ticks[t].pc = "done" =>
      \A c \in {updatePricesContext(ticks[t]), FullContext(ticks[t])} :
        /\ Len(buyAndSell(c).orders) <= 1
        /\ buyAndSell(c).orders # << >> => buyAndSell(c).trade = c.trade

C15_Witness ==
  \E t \in TickIds :
    LET c == updatePricesContext(ticks[t]) IN
    /\ ticks[t].pc = "done" /\ ticks[t].branch = "held"
    /\ ticks[t].secondsToMarketClosed < CLOSING_WINDOW
    /\ c.riskPriceReached
    /\ buyAndSell(c).orders = <<"sell">>
    /\ buyAndSell(FullContext(ticks[t])).orders = <<"sell">>

\* C16: when the order a Trade references is not found, or a required
\* cancel does not succeed, the pass aborts.  A pass whose order is not
\* found ends rejected; and no step a pass takes before or into such an
\* abort (loading, reading the order, asking for the cancel) places an
\* order or changes the stored Trade, the stored Rule or the rule's place in
\* the engine's rule list, so that the next pass reconciles the rule again.
C16_AbortLeavesStateAlone ==
  [][\A t \in TickIds :
       /\ (/\ ticks[t].pc = "getOrder" /\ ticks'[t] # ticks[t]
           /\ getOrderById(ticks[t].lastOrderId) = NoOrder)
          => ticks'[t].pc = "rejected"
       /\ (/\ ticks[t].pc \in {"fetch", "getOrder", "cancel"}
           /\ ticks'[t] # ticks[t]
           /\ ticks'[t].pc \in {"getOrder", "cancel", "rejected"})
          => /\ store' = store /\ ruleDb' = ruleDb
             /\ ruleEnabled' = ruleEnabled /\ rules' = rules
             /\ calls' = calls /\ orderPendingMap' = orderPendingMap
             /\ ticks'[t].pc = "rejected" => orders' = orders]_vars

C16_Witness ==
  \E t \in TickIds :
    /\ ticks[t].pc = "rejected" /\ ticks[t].branch = "orderNotFound"
    /\ ticks[t].loaded \in store
    /\ rules /\ ruleEnabled /\ ruleDb

\* C17: a pass that found the Trade's last order to be a buy that is not
\* filled asks for its cancel; while it waits and whatever the answer the
\* stored Trade is untouched, it goes on to remove the Trade only with the
\* order cancelled, and when the removal is done the Trade is gone from the
\* store and the pass is left looking to buy (no trade, lastOrderIsSell,
\* not lastOrderIsBuy).
C17_PendingBuyDiscarded ==
  [][\A t \in TickIds :
       LET k == ticks[t] IN
       /\ (k.pc = "cancel" /\ k.cancel = "pending" /\ k.lastOrderIsBuy
           /\ ticks'[t] # k)
          => /\ store' = store
             /\ ticks'[t].pc \in {"remove", "rejected"}
             /\ ticks'[t].pc = "remove" => isCancelled(orders'[k.lastOrderId])
       /\ (k.pc = "remove" /\ ticks'[t].pc = "done")
          => /\ isCancelled(orders[k.lastOrderId])
             /\ \A d \in store' : d.id # k.loaded.id
             /\ ticks'[t].trade = NoTrade
             /\ ticks'[t].lastOrderIsSell /\ ~ticks'[t].lastOrderIsBuy]_vars

C17_Witness ==
  \E t \in TickIds :
    /\ ticks[t].pc = "done" /\ ticks[t].branch = "pendingBuy"
    /\ ticks[t].lastOrder.status = "new" /\ ticks[t].lastOrder.filled = 0
    /\ isCancelled(orders[ticks[t].lastOrderId])
    /\ ticks[t].trade = NoTrade /\ ticks[t].lastOrderIsSell
    /\ store = {}

\* C18: once a pass has cancelled a sell that was not filled and rolled the
\* sell fields back, the stored Trade of that id (the one later passes load)
\* has no sellOrderId: it is the rolled-back Trade.
C18_RollbackIsLoaded ==
  \A t \in TickIds :
    LET k == ticks[t] IN
    (k.pc = "done" /\ k.branch = "pendingSell"
     /\ k.trade = RollbackSell(k.loaded))
      => \A d \in store : d.id = k.loaded.id => d.sellOrderId = Undef

\* C19: whenever the rule has no guard entry, every order the gateway has
\* accepted is referenced by a stored Trade (as its buyOrderId or its
\* sellOrderId), so a pass that loads the trades then sees its order id.
C19_GuardCoversSave ==
  ~Guarded(RuleId) =>
    \A id \in OrderIds :
      orders[id].status # "none" =>
        \E d \in store : d.buyOrderId = id \/ d.sellOrderId = id

\* C20: a sell rejected with 'Not enough shares to sell' at a zero position
\* is handled in the catch handler: when the handler runs to its end (its
\* saves resolved, so the call's promise resolves and nothing is thrown to
\* the caller) the guard entry is deleted, the Trade is stored completed with sellOrderId 'not-captured', so it is
\* no longer among the incomplete trades, and the rule is stored disabled
\* if it is disableAfterSold or has no entry strategy.
C20_RejectedSellClosesTrade ==
  [][\A c \in CallIds :
       LET k == calls[c] IN
       (k.pc = "handling" /\ k.tradeSave /\ calls'[c].pc = "idle")
         => /\ ~(RuleId \in orderPendingMap')
            /\ \E d \in store' :
                 /\ d.id = k.trade.id
                 /\ d.completed /\ d.sellOrderId = NotCaptured
                 /\ d.sellPrice = k.price
            /\ \A d \in store' : d.id = k.trade.id => d.completed
            /\ DisableAfterSold(ruleCfg) => (~ruleDb' /\ ~ruleEnabled')]_vars

C20_Witness ==
  /\ ~Guarded(RuleId)
  /\ DisableAfterSold(ruleCfg) /\ ~ruleDb /\ ~ruleEnabled
  /\ \E d \in store : d.completed /\ d.sellOrderId = NotCaptured
  /\ \A c \in CallIds : calls[c].pc # "handling"

\* C21: a submission rejected with 'Instrument cannot be traded' disables the
\* rule in memory at once and keeps the guard entry while the rule is saved;
\* when the handler ends resolved the rule is stored with enabled = false
\* and nothing re-enables it; a pass that starts with the rule disabled in
\* memory drops it at its filter and goes no further, a dropped rule that is
\* stored disabled never returns to the list, and no step of a pass submits
\* an order.
C21_UntradableDisablesRule ==
  [][/\ \A c \in CallIds :
          LET k == calls[c] IN
          /\ (k.pc = "submitted" /\ calls'[c] # k)
             => /\ calls'[c].pc = "handling" /\ calls'[c].ruleSave
                /\ ~ruleEnabled'
                /\ RuleId \in orderPendingMap'
          /\ (k.pc = "handling" /\ calls'[c].pc = "idle")
             => ~ruleDb' /\ ~(RuleId \in orderPendingMap')
     /\ ~ruleDb => ~ruleDb'
     /\ (~ruleDb /\ ~rules) => ~rules'
     /\ \A t \in TickIds :
          /\ (TickOver(t) /\ ~(rules /\ ruleEnabled) /\ ticks'[t] # ticks[t])
             => ~rules' /\ ticks'[t] = IdleTick
          /\ ticks'[t] # ticks[t]
             => calls' = calls /\ orders' = orders
                /\ orderPendingMap' = orderPendingMap]_vars

C21_Witness ==
  /\ ~ruleDb /\ ~ruleEnabled /\ ~rules
  /\ ~Guarded(RuleId)
  /\ \A c \in CallIds : calls[c].pc = "idle"
  /\ \A t \in TickIds : ticks[t].pc = "idle"
  /\ \A id \in OrderIds : orders[id].status = "none"

\* C22: with the manual kill-switch set, or fewer than 30 seconds to the
\* close and a rule that does not hold overnight, buyAndSell emits no buy and
\* returns the trade as it got it (riskValue and targetReached untouched),
\* whatever the patterns would have decided.
C22_ClosingWindowOnlySells ==
  \A t \in TickIds :
    ticks[t].pc = "done" =>
      \A c \in {updatePricesContext(ticks[t]), FullContext(ticks[t])} :
        (MANUALLY_SELL_ALL
         \/ (~OVERRIDE_MARKET_CLOSE /\ c.secondsToMarketClosed < CLOSING_WINDOW
             /\ ~c.holdOvernight))
          => /\ \A i \in 1..Len(buyAndSell(c).orders) :
                  buyAndSell(c).orders[i] # "buy"
             /\ buyAndSell(c).trade.riskValue = c.trade.riskValue
             /\ buyAndSell(c).trade.targetReached = c.trade.targetReached
             /\ ~buyAndSell(c).threw

C22_Witness ==
  \E t \in TickIds :
    LET c == FullContext(ticks[t]) IN
    /\ ticks[t].pc = "done" /\ ticks[t].branch = "flat"
    /\ c.secondsToMarketClosed < CLOSING_WINDOW /\ ~c.holdOvernight
    /\ c.lastOrderIsSell /\ EntryTest(c.commonPrice)
    /\ Patterns(c).orders = <<"buy">>
    /\ buyAndSell(c).orders = << >>

\* C23: a pass that starts while the rule is disabled or has an entry in
\* orderPendingMap drops the rule and ends at once; a pass gets to its fetch
\* of the quotes and the incomplete trades only from a start at which the
\* rule was enabled and unguarded, and to reconciliation only from there.
C23_FilterBeforeFetch ==
  [][\A t \in TickIds :
       (TickOver(t) /\ ticks'[t] # ticks[t])
         => /\ ticks'[t].pc \in {"idle", "fetch"}
            /\ ticks'[t].pc = "fetch"
               => rules /\ ruleEnabled /\ ~(RuleId \in orderPendingMap)
            /\ (~ruleEnabled \/ RuleId \in orderPendingMap)
               => ticks'[t] = IdleTick /\ ~rules']_vars

C23_Witness ==
  /\ Guarded(RuleId) /\ ruleEnabled /\ ruleDb
  /\ ~rules
  /\ \E t \in TickIds : ticks[t] = IdleTick
  /\ \A t \in TickIds : ticks[t].pc # "fetch"

\* C24: when detectIntervalChange has returned, the prices of the fetch it
\* returned after differ in value from the first prices it observed.
C24_ReturnsOnPriceChange ==
  boot.pc = "returned" => boot.currentPrices.close # boot.prices.close

====
